---------------------------- MODULE Spec2Model ----------------------------
(***************************************************************************)
(* Model of the PV Curve Tracer visualizer: the packet grammar             *)
(* (Visualizer/src/parser.rs), the file replay aggregator (parse_file) and *)
(* the live session driver (Visualizer/src/communication.rs,               *)
(* execute_test).                                                          *)
(*                                                                         *)
(* Text is a sequence of one-character strings.  The transport delivers    *)
(* ASCII text, as the wire format prescribes; a read is a chunk of the     *)
(* device's byte stream cut at an arbitrary place.                         *)
(*                                                                         *)
(* An f32 is a record [k, v]: k = "num" with v the value in tenths, or     *)
(* k in {"nan", "inf", "ninf"} with v = 0.                                 *)
(***************************************************************************)
EXTENDS Integers, Sequences, FiniteSets, TLC

VARIABLES
    mode,          \* "live": execute_test runs; "file": parse_file runs
    pc,            \* position of the running function
    cmd,           \* live: the caller-supplied command packet
    stream,        \* live: the text the device sends after START
    pos,           \* live: number of characters of stream already read
    rx,            \* live: result of the last receive_message
    tx,            \* live: result of the last send_message
    response,      \* live: the operator's answer to the prompt
    sent,          \* live: messages written to the port, in order
    buffer,        \* live: the reassembly buffer
    end,           \* live: the loop's end flag
    cur_subid,     \* live: highest sub id reported to the progress bar
    count,         \* live: the progress bar's total
    abort,         \* live: an abort was requested from outside
    packet_set,    \* live: the packet set under construction
    yielded,       \* live: the trimmed lines handed to the parsers so far
    yieldedRaw,    \* live: the same lines as cut from the buffer, untrimmed
    carry,         \* live: the last read completed a line begun in an earlier read
    file,          \* file: the lines of the log file, header first
    fpos,          \* file: number of lines already read
    packet_sets,   \* file: the regimes built so far
    gin,           \* grammar: the text or the packet handed to the function
    gout           \* grammar: what the function returned

vars == <<mode, pc, cmd, stream, pos, rx, tx, response, sent, buffer, end,
          cur_subid, count, abort, packet_set, yielded, yieldedRaw, carry, file, fpos,
          packet_sets, gin, gout>>

liveVars == <<cmd, stream, pos, rx, tx, response, sent, buffer, end, cur_subid,
              count, abort, packet_set, yielded, yieldedRaw, carry>>

fileVars == <<file, fpos, packet_sets>>

grammarVars == <<gin, gout>>

----------------------------------------------------------------------------
(* Bounds *)

MaxStreamLines == 2

MaxFileLines == 3

MaxTokens == 6

\* the longest data sequence handed to the visualization
MaxPackets == 3

----------------------------------------------------------------------------
(* Text *)

Digits == {"0", "1", "2", "3", "4", "5", "6", "7", "8", "9"}

DigitVal == [c \in Digits |->
               CASE c = "0" -> 0 [] c = "1" -> 1 [] c = "2" -> 2
                 [] c = "3" -> 3 [] c = "4" -> 4 [] c = "5" -> 5
                 [] c = "6" -> 6 [] c = "7" -> 7 [] c = "8" -> 8
                 [] c = "9" -> 9]

WhiteSpace == {" ", "\n", "\r", "\t"}

RECURSIVE TrimStart(_)
TrimStart(s) ==
    IF s # <<>> /\ Head(s) \in WhiteSpace THEN TrimStart(Tail(s)) ELSE s

RECURSIVE TrimEnd(_)
TrimEnd(s) ==
    IF s # <<>> /\ s[Len(s)] \in WhiteSpace
    THEN TrimEnd(SubSeq(s, 1, Len(s) - 1))
    ELSE s

\* str::trim
Trim(s) == TrimEnd(TrimStart(s))

\* position of the first occurrence of character d in s, 0 if none
RECURSIVE IndexFrom(_, _, _)
IndexFrom(s, d, i) ==
    IF i > Len(s) THEN 0
    ELSE IF s[i] = d THEN i
    ELSE IndexFrom(s, d, i + 1)

\* str::split(d): the pieces between the occurrences of d, at least one piece
RECURSIVE Split(_, _)
Split(s, d) ==
    LET i == IndexFrom(s, d, 1) IN
    IF i = 0 THEN <<s>>
    ELSE <<SubSeq(s, 1, i - 1)>> \o Split(SubSeq(s, i + 1, Len(s)), d)

RECURSIVE Concat(_)
Concat(ss) == IF ss = <<>> THEN <<>> ELSE Head(ss) \o Concat(Tail(ss))

----------------------------------------------------------------------------
(* Numbers *)

I32Max == 2147483647

RECURSIVE DigitsVal(_, _)
DigitsVal(s, acc) ==
    IF s = <<>> THEN acc ELSE DigitsVal(Tail(s), acc * 10 + DigitVal[Head(s)])

AllDigits(s) == \A i \in 1..Len(s) : s[i] \in Digits

\* str::parse::<i32>: optional sign, at least one digit, within range
ParseI32(tok) ==
    LET signed == tok # <<>> /\ Head(tok) \in {"+", "-"}
        body   == IF signed THEN Tail(tok) ELSE tok
        neg    == signed /\ Head(tok) = "-"
        mag    == DigitsVal(body, 0)
    IN  IF body = <<>> \/ ~AllDigits(body) \/ Len(body) > 10
        THEN [ok |-> FALSE, v |-> 0]
        ELSE IF (neg /\ mag - 1 > I32Max) \/ (~neg /\ mag > I32Max)
        THEN [ok |-> FALSE, v |-> 0]
        ELSE [ok |-> TRUE, v |-> IF neg THEN 0 - mag ELSE mag]

Num(t) == [k |-> "num", v |-> t]

NaN == [k |-> "nan", v |-> 0]

Inf == [k |-> "inf", v |-> 0]

NegInf == [k |-> "ninf", v |-> 0]

\* str::parse::<f32>: optional sign, then "inf", "NaN" or a decimal number
\* with at least one digit; the value is kept to one fractional digit
ParseF32(tok) ==
    LET signed == tok # <<>> /\ Head(tok) \in {"+", "-"}
        body   == IF signed THEN Tail(tok) ELSE tok
        neg    == signed /\ Head(tok) = "-"
        parts  == Split(body, ".")
        ip     == parts[1]
        fp     == IF Len(parts) > 1 THEN parts[2] ELSE <<>>
        tenths == DigitsVal(ip, 0) * 10 + (IF fp = <<>> THEN 0 ELSE DigitVal[fp[1]])
    IN  IF body = <<"i", "n", "f">>
        THEN [ok |-> TRUE, v |-> IF neg THEN NegInf ELSE Inf]
        ELSE IF body = <<"N", "a", "N">>
        THEN [ok |-> TRUE, v |-> NaN]
        ELSE IF Len(parts) > 2 \/ ~AllDigits(ip) \/ ~AllDigits(fp)
                \/ (ip = <<>> /\ fp = <<>>)
        THEN [ok |-> FALSE, v |-> Num(0)]
        ELSE [ok |-> TRUE, v |-> Num(IF neg THEN 0 - tenths ELSE tenths)]

\* f32 comparison a <= b
FLe(a, b) ==
    IF a.k = "nan" \/ b.k = "nan" THEN FALSE
    ELSE IF a.k = "ninf" \/ b.k = "inf" THEN TRUE
    ELSE IF a.k = "inf" \/ b.k = "ninf" THEN FALSE
    ELSE a.v <= b.v

\* f32 comparison a > b
FGt(a, b) ==
    IF a.k = "nan" \/ b.k = "nan" THEN FALSE
    ELSE IF a.k = b.k /\ a.k # "num" THEN FALSE
    ELSE IF a.k = "inf" \/ b.k = "ninf" THEN TRUE
    ELSE IF a.k = "ninf" \/ b.k = "inf" THEN FALSE
    ELSE a.v > b.v

\* f32 subtraction a - b
FSub(a, b) ==
    IF a.k = "nan" \/ b.k = "nan" THEN NaN
    ELSE IF a.k = "num" /\ b.k = "num" THEN Num(a.v - b.v)
    ELSE IF a.k = b.k THEN NaN
    ELSE IF a.k = "inf" \/ b.k = "ninf" THEN Inf
    ELSE NegInf

\* a u64 is a record [k, v]: k = "n" with v the value, or k = "max" for
\* u64::MAX, the value a cast saturates at
U64(n) == [k |-> "n", v |-> n]

U64Max == [k |-> "max", v |-> 0]

\* (a / b) as u64 for f32 a and b: the quotient cut toward zero; NaN and
\* negative quotients give 0, +inf gives u64::MAX
FDivAsU64(a, b) ==
    IF a.k = "nan" \/ b.k = "nan" THEN U64(0)
    ELSE IF a.k # "num" /\ b.k # "num" THEN U64(0)
    ELSE IF a.k # "num"
    THEN IF (a.k = "inf") = (b.v >= 0) THEN U64Max ELSE U64(0)
    ELSE IF b.k # "num" THEN U64(0)
    ELSE IF b.v = 0 THEN (IF a.v > 0 THEN U64Max ELSE U64(0))
    ELSE IF (a.v < 0) # (b.v < 0) THEN U64(0)
    ELSE U64((IF a.v < 0 THEN 0 - a.v ELSE a.v)
                 \div (IF b.v < 0 THEN 0 - b.v ELSE b.v))

----------------------------------------------------------------------------
(* Packet grammar *)

DATA == <<"D", "A", "T", "A">>

TEST == <<"T", "E", "S", "T">>

START == <<"S", "T", "A", "R", "T">>

END == <<"E", "N", "D">>

Err == [res |-> "err"]

Panic == [res |-> "panic"]

Ok(p) == [res |-> "ok", pkt |-> p]

num_to_packet_type_AlwaysVoltage(val) == "VOLTAGE"

\* PacketType::num_to_packet_type
num_to_packet_type(val) ==
    CASE val = 0 -> "VOLTAGE"
      [] val = 1 -> "CURRENT"
      [] val = 2 -> "TEMP"
      [] val = 3 -> "IRRAD"
      [] OTHER   -> "VOLTAGE"

\* PacketType::to_num
to_num(t) ==
    CASE t = "VOLTAGE" -> 0
      [] t = "CURRENT" -> 1
      [] t = "TEMP"    -> 2
      [] t = "IRRAD"   -> 3

\* CommandPacket::new
CommandPacket(id, command, params) ==
    [packet_id |-> id, packet_command |-> command, packet_params |-> params]

\* DataPacket::new
DataPacket(id, subid, type, data) ==
    [packet_id |-> id, packet_subid |-> subid, packet_type |-> type,
     packet_data |-> data]

CommandVerify_IdAndLengthOnly(p) ==
    LET length == Len(p.packet_params) IN
    IF p.packet_id < 0 THEN FALSE
    ELSE IF p.packet_command = "TEST" /\ length # 3 THEN FALSE
    ELSE IF p.packet_command # "TEST" /\ length # 0 THEN FALSE
    ELSE TRUE

\* CommandPacket::verify_packet: TRUE when it returns Ok
CommandVerify(p) ==
    LET length == Len(p.packet_params) IN
    IF p.packet_id < 0 THEN FALSE
    ELSE IF p.packet_command = "TEST" /\ length # 3 THEN FALSE
    ELSE IF p.packet_command # "TEST" /\ length # 0 THEN FALSE
    ELSE IF p.packet_command = "TEST"
    THEN IF FLe(p.packet_params[2], p.packet_params[1]) THEN FALSE
         ELSE IF FGt(p.packet_params[3],
                     FSub(p.packet_params[2], p.packet_params[1]))
                 /\ FGt(p.packet_params[3], Num(0))
         THEN FALSE
         ELSE TRUE
    ELSE TRUE

\* DataPacket::verify_packet: TRUE when it returns Ok
DataVerify(p) ==
    IF p.packet_id < 0 THEN FALSE
    ELSE IF p.packet_subid < 0 THEN FALSE
    ELSE TRUE

\* CommandPacket::parse_packet_string
CommandParse(string) ==
    LET vec == Split(string, " ") IN
    IF vec[1] = START \/ vec[1] = END
    THEN IF Len(vec) # 2 THEN Err
         ELSE IF ~ParseI32(vec[2]).ok THEN Err
         ELSE LET command_packet ==
                      CommandPacket(ParseI32(vec[2]).v,
                                    IF vec[1] = START THEN "START" ELSE "END",
                                    <<>>)
              IN  IF CommandVerify(command_packet)
                  THEN Ok(command_packet) ELSE Err
    ELSE IF vec[1] = TEST
    THEN IF Len(vec) # 5 THEN Err
         ELSE IF ~ParseI32(vec[2]).ok \/ ~ParseF32(vec[3]).ok
                 \/ ~ParseF32(vec[4]).ok \/ ~ParseF32(vec[5]).ok
         THEN Err
         ELSE LET command_packet ==
                      CommandPacket(ParseI32(vec[2]).v, "TEST",
                                    <<ParseF32(vec[3]).v, ParseF32(vec[4]).v,
                                      ParseF32(vec[5]).v>>)
              IN  IF CommandVerify(command_packet)
                  THEN Ok(command_packet) ELSE Err
    ELSE Err

\* DataPacket::parse_packet_string.  The fields are indexed without a check
\* of the token count, and the checks short-circuit: reading a field that is
\* not there panics.
DataParse(string) ==
    LET vec == Split(string, " ") IN
    IF vec[1] # DATA THEN Err
    ELSE IF Len(vec) < 2 THEN Panic
    ELSE IF ~ParseI32(vec[2]).ok THEN Err
    ELSE IF Len(vec) < 3 THEN Panic
    ELSE IF ~ParseI32(vec[3]).ok THEN Err
    ELSE IF Len(vec) < 4 THEN Panic
    ELSE IF ~ParseI32(vec[4]).ok THEN Err
    ELSE IF Len(vec) < 5 THEN Panic
    ELSE IF ~ParseF32(vec[5]).ok THEN Err
    ELSE LET measurement_type == ParseI32(vec[4]).v
             packet_type == num_to_packet_type(measurement_type)
             data_packet == DataPacket(ParseI32(vec[2]).v, ParseI32(vec[3]).v,
                                       packet_type, ParseF32(vec[5]).v)
         IN  IF DataVerify(data_packet) THEN Ok(data_packet) ELSE Err

\* parse_buffer: res is "data", "command", "err" or "panic"
parse_buffer(buf) ==
    LET d == DataParse(buf) IN
    IF d.res = "panic" THEN Panic
    ELSE IF d.res = "ok" THEN [res |-> "data", pkt |-> d.pkt]
    ELSE LET c == CommandParse(buf) IN
         IF c.res = "ok" THEN [res |-> "command", pkt |-> c.pkt]
         ELSE Err

----------------------------------------------------------------------------
(* Rendering *)

DigitChar == <<"0", "1", "2", "3", "4", "5", "6", "7", "8", "9">>

RECURSIVE NatToString(_)
NatToString(n) ==
    IF n < 10 THEN <<DigitChar[n + 1]>>
    ELSE NatToString(n \div 10) \o <<DigitChar[(n % 10) + 1]>>

\* i32::to_string
I32ToString(n) == IF n < 0 THEN <<"-">> \o NatToString(0 - n) ELSE NatToString(n)

\* f32::to_string: the shortest decimal form, no fraction for a whole number
F32ToString(f) ==
    CASE f.k = "nan"  -> <<"N", "a", "N">>
      [] f.k = "inf"  -> <<"i", "n", "f">>
      [] f.k = "ninf" -> <<"-", "i", "n", "f">>
      [] OTHER ->
           LET a == IF f.v < 0 THEN 0 - f.v ELSE f.v
               sign == IF f.v < 0 THEN <<"-">> ELSE <<>>
           IN  IF a % 10 = 0 THEN sign \o NatToString(a \div 10)
               ELSE sign \o NatToString(a \div 10) \o <<".">>
                         \o <<DigitChar[(a % 10) + 1]>>

RECURSIVE ParamsToString(_)
ParamsToString(ps) ==
    IF ps = <<>> THEN <<>>
    ELSE F32ToString(Head(ps)) \o <<" ">> \o ParamsToString(Tail(ps))

\* the message without the space that follows the id and each parameter
TransmitMessage_NoSpaceAfter(p) ==
    (CASE p.packet_command = "TEST"  -> TEST
       [] p.packet_command = "START" -> START
       [] p.packet_command = "END"   -> END)
    \o <<" ">> \o I32ToString(p.packet_id)
    \o Concat([i \in 1..Len(p.packet_params) |->
                  F32ToString(p.packet_params[i])])
    \o <<";">>

\* the message CommandPacket::transmit_packet hands to send_message
TransmitMessage(p) ==
    (CASE p.packet_command = "TEST"  -> TEST
       [] p.packet_command = "START" -> START
       [] p.packet_command = "END"   -> END)
    \o <<" ">> \o I32ToString(p.packet_id) \o <<" ">>
    \o ParamsToString(p.packet_params) \o <<";">>

\* CommandPacket::stringify: the word TEST whatever the command, and the three
\* parameters indexed without a check of their number: a packet with fewer
\* than three parameters panics
CommandStringify(p) ==
    IF Len(p.packet_params) < 3 THEN Panic
    ELSE [res |-> "ok",
          text |-> TEST \o <<" ">> \o I32ToString(p.packet_id)
                   \o <<" ">> \o F32ToString(p.packet_params[1])
                   \o <<" ">> \o F32ToString(p.packet_params[2])
                   \o <<" ">> \o F32ToString(p.packet_params[3])
                   \o <<"\n">>]

\* DataPacket::stringify
DataStringify(p) ==
    [res |-> "ok",
     text |-> DATA \o <<" ">> \o I32ToString(p.packet_id)
              \o <<" ">> \o I32ToString(p.packet_subid)
              \o <<" ">> \o NatToString(to_num(p.packet_type))
              \o <<" ">> \o F32ToString(p.packet_data) \o <<"\n">>]

----------------------------------------------------------------------------
(* Visualization: PacketSet::visualize, visualize_packets *)

\* f32 comparison a != b
FNe(a, b) == a.k = "nan" \/ b.k = "nan" \/ a # b

\* (f * 1000.0) as i32 and the like: f scaled by num / den, cut to an integer
\* toward zero; NaN gives 0 and the infinities saturate
ScaledAsI32(f, num, den) ==
    CASE f.k = "nan"  -> 0
      [] f.k = "inf"  -> I32Max
      [] f.k = "ninf" -> 0 - I32Max - 1
      [] OTHER ->
           LET a == (IF f.v < 0 THEN 0 - f.v ELSE f.v) * num
               q == a \div (10 * den)
           IN  IF f.v < 0 THEN 0 - q ELSE q

\* (data * 1000.0 * voltage) as i32
PowerAsI32(data, voltage) ==
    IF data.k = "nan" \/ voltage.k = "nan" THEN 0
    ELSE IF data.k = "num" /\ voltage.k = "num"
    THEN data.v * voltage.v * 10
    ELSE IF (data.k = "num" /\ data.v = 0) \/ (voltage.k = "num" /\ voltage.v = 0)
    THEN 0
    ELSE IF (data.k = "ninf" \/ (data.k = "num" /\ data.v < 0))
             = (voltage.k = "ninf" \/ (voltage.k = "num" /\ voltage.v < 0))
    THEN I32Max
    ELSE 0 - I32Max - 1

\* a plotted point; idx is the position, in the data sequence, of the packet
\* the point was pushed for
Point(x, y, idx) == [x |-> x, y |-> y, idx |-> idx]

\* the scan's variables before the first packet
ScanStart ==
    [subid |-> -1, voltage |-> Num(-10),
     series_current |-> <<>>, series_power |-> <<>>,
     series_temp |-> <<>>, series_irrad |-> <<>>]

\* the scan where the voltage is kept when the sub id changes
ScanPacket_VoltageCarried(st, packet, idx) ==
    LET set == IF packet.packet_type = "VOLTAGE"
               THEN [st EXCEPT !.subid = packet.packet_subid,
                               !.voltage = packet.packet_data]
               ELSE [st EXCEPT !.subid = packet.packet_subid]
        x == ScaledAsI32(set.voltage, 1000, 1)
    IN  IF ~FNe(set.voltage, Num(-10)) THEN set
        ELSE CASE packet.packet_type = "CURRENT" ->
                    [set EXCEPT
                       !.series_current = Append(@,
                           Point(x, ScaledAsI32(packet.packet_data, 1000, 1), idx)),
                       !.series_power = Append(@,
                           Point(x, PowerAsI32(packet.packet_data, set.voltage), idx))]
               [] packet.packet_type = "TEMP" ->
                    [set EXCEPT
                       !.series_temp = Append(@,
                           Point(x, ScaledAsI32(packet.packet_data, 10, 1), idx))]
               [] packet.packet_type = "IRRAD" ->
                    [set EXCEPT
                       !.series_irrad = Append(@,
                           Point(x, ScaledAsI32(packet.packet_data, 1, 1), idx))]
               [] OTHER -> set

\* the body of the scan for the packet at position idx
ScanPacket(st, packet, idx) ==
    LET new == IF packet.packet_subid # st.subid
               THEN [st EXCEPT !.subid = packet.packet_subid,
                               !.voltage = Num(-10)]
               ELSE st
        set == IF packet.packet_type = "VOLTAGE"
               THEN [new EXCEPT !.voltage = packet.packet_data]
               ELSE new
        x == ScaledAsI32(set.voltage, 1000, 1)
    IN  IF ~FNe(set.voltage, Num(-10)) THEN set
        ELSE CASE packet.packet_type = "CURRENT" ->
                    [set EXCEPT
                       !.series_current = Append(@,
                           Point(x, ScaledAsI32(packet.packet_data, 1000, 1), idx)),
                       !.series_power = Append(@,
                           Point(x, PowerAsI32(packet.packet_data, set.voltage), idx))]
               [] packet.packet_type = "TEMP" ->
                    [set EXCEPT
                       !.series_temp = Append(@,
                           Point(x, ScaledAsI32(packet.packet_data, 10, 1), idx))]
               [] packet.packet_type = "IRRAD" ->
                    [set EXCEPT
                       !.series_irrad = Append(@,
                           Point(x, ScaledAsI32(packet.packet_data, 1, 1), idx))]
               [] OTHER -> set

\* the scan from the packet at position idx on
RECURSIVE ScanFrom(_, _, _)
ScanFrom(st, data_packets, idx) ==
    IF idx > Len(data_packets) THEN st
    ELSE ScanFrom(ScanPacket(st, data_packets[idx], idx), data_packets, idx + 1)

\* the four series the scan of a regime's data sequence hands to the plot
SeparateSeries(data_packets) == ScanFrom(ScanStart, data_packets, 1)

----------------------------------------------------------------------------
(* File replay: parse_file *)

\* return_header(), abbreviated
Header == <<"L", "o", "g", " ", "V", "0", ".", "1">>

PacketSet(command, data) == [command_packet |-> command, data_packets |-> data]

\* the command branch where a later TEST for an id replaces the regime
AddCommand_LastWins(sets, command_packet) ==
    LET hits == {i \in 1..Len(sets) :
                     sets[i].command_packet.packet_id = command_packet.packet_id}
    IN  IF command_packet.packet_command # "TEST" THEN sets
        ELSE IF hits = {} THEN Append(sets, PacketSet(command_packet, <<>>))
        ELSE [i \in 1..Len(sets) |->
                 IF i \in hits THEN PacketSet(command_packet, <<>>) ELSE sets[i]]

\* the command branch where any command for an id without a regime makes one
AddCommand_AnyCommand(sets, command_packet) ==
    LET found == \E i \in 1..Len(sets) :
                     sets[i].command_packet.packet_id = command_packet.packet_id
    IN  IF ~found
        THEN Append(sets, PacketSet(command_packet, <<>>))
        ELSE sets

\* the command branch where every TEST makes a regime, its id seen or not
AddCommand_EveryTest(sets, command_packet) ==
    IF command_packet.packet_command = "TEST"
    THEN Append(sets, PacketSet(command_packet, <<>>))
    ELSE sets

\* parse_file, the command branch: a TEST for an id without a regime makes one
AddCommand(sets, command_packet) ==
    LET found == \E i \in 1..Len(sets) :
                     sets[i].command_packet.packet_id = command_packet.packet_id
                     /\ command_packet.packet_command = "TEST"
    IN  IF ~found /\ command_packet.packet_command = "TEST"
        THEN Append(sets, PacketSet(command_packet, <<>>))
        ELSE sets

\* the data branch where a packet without a regime goes to the first regime
AddData_NoMatchToFirst(sets, data_packet) ==
    LET hits == {i \in 1..Len(sets) :
                     sets[i].command_packet.packet_id = data_packet.packet_id}
        i == IF hits = {} THEN 1
             ELSE CHOOSE h \in hits : \A g \in hits : h <= g
    IN  IF sets = <<>> THEN sets
        ELSE [sets EXCEPT ![i].data_packets = Append(@, data_packet)]

\* the data branch where the packet is put in front of the regime's data
AddData_Prepends(sets, data_packet) ==
    LET hits == {i \in 1..Len(sets) :
                     sets[i].command_packet.packet_id = data_packet.packet_id}
    IN  IF hits = {} THEN sets
        ELSE LET i == CHOOSE h \in hits : \A g \in hits : h <= g
             IN  [sets EXCEPT ![i].data_packets = <<data_packet>> \o @]

\* parse_file, the data branch: push to the first regime with the packet's id
AddData(sets, data_packet) ==
    LET hits == {i \in 1..Len(sets) :
                     sets[i].command_packet.packet_id = data_packet.packet_id}
    IN  IF hits = {} THEN sets
        ELSE LET i == CHOOSE h \in hits : \A g \in hits : h <= g
             IN  [sets EXCEPT ![i].data_packets = Append(@, data_packet)]

\* parse_file, one line of the loop folded into the regimes
FoldLine(sets, line) ==
    LET res == parse_buffer(Trim(line)) IN
    CASE res.res = "command" -> AddCommand(sets, res.pkt)
      [] res.res = "data"    -> AddData(sets, res.pkt)
      [] OTHER               -> sets

\* PacketSet::save_packet_set: the lines written to the log, in order
save_packet_set(ps) ==
    LET command == CommandStringify(ps.command_packet)
        id == I32ToString(ps.command_packet.packet_id)
    IN  IF command.res = "panic" THEN Panic
        ELSE [res |-> "ok",
              lines |-> <<Header \o <<"\n">>,
                          command.text,
                          START \o <<" ">> \o id \o <<"\n">>>>
                        \o [i \in 1..Len(ps.data_packets) |->
                                DataStringify(ps.data_packets[i]).text]
                        \o <<END \o <<" ">> \o id \o <<"\n">>>>]

\* parse_file's loop over the lines after the header
RECURSIVE ParseLines(_, _)
ParseLines(sets, lines) ==
    IF lines = <<>> THEN [res |-> "ok", sets |-> sets]
    ELSE IF parse_buffer(Trim(Head(lines))).res = "panic" THEN Panic
    ELSE ParseLines(FoldLine(sets, Head(lines)), Tail(lines))

\* parse_file from the header check to the end of the file
parse_file(f) ==
    LET first == IF f = <<>> THEN <<>> ELSE f[1] IN
    IF Trim(first) # Header THEN Err
    ELSE ParseLines(<<>>, Tail(f))

ReadHeader_NoCheck ==
    /\ mode = "file"
    /\ pc = "start"
    /\ pc' = "lines"
    /\ fpos' = IF file = <<>> THEN 0 ELSE 1
    /\ UNCHANGED <<mode, file, packet_sets, liveVars, grammarVars>>

\* parse_file up to the header check
ReadHeader ==
    /\ mode = "file"
    /\ pc = "start"
    /\ LET first == IF file = <<>> THEN <<>> ELSE file[1] IN
       IF Trim(first) # Header
       THEN /\ pc' = "error_header"
            /\ fpos' = fpos
       ELSE /\ pc' = "lines"
            /\ fpos' = 1
    /\ UNCHANGED <<mode, file, packet_sets, liveVars, grammarVars>>

\* parse_file, one iteration of the loop on a line that was read
ReadLine ==
    /\ mode = "file"
    /\ pc = "lines"
    /\ fpos < Len(file)
    /\ fpos' = fpos + 1
    /\ LET res == parse_buffer(Trim(file[fpos + 1])) IN
       IF res.res = "panic"
       THEN /\ pc' = "panicked"
            /\ packet_sets' = packet_sets
       ELSE /\ pc' = "lines"
            /\ packet_sets' = FoldLine(packet_sets, file[fpos + 1])
    /\ UNCHANGED <<mode, file, liveVars, grammarVars>>

\* parse_file, the iteration that reads nothing: end of file
ReadEof ==
    /\ mode = "file"
    /\ pc = "lines"
    /\ fpos = Len(file)
    /\ pc' = "done"
    /\ UNCHANGED <<mode, file, fpos, packet_sets, liveVars, grammarVars>>

----------------------------------------------------------------------------
(* Live session: execute_test *)

\* the body of the inner loop with an END of any id ending the collection
ProcessLine_AnyEndCompletes(st, raw, cmd_id) ==
    LET res     == Trim(raw)
        res_vec == Split(res, " ")
        d       == DataParse(res)
        got     == [st EXCEPT !.yielded = Append(@, res),
                              !.yieldedRaw = Append(@, raw)]
    IN  IF d.res = "panic" THEN [got EXCEPT !.panicked = TRUE]
        ELSE IF d.res = "ok"
        THEN [got EXCEPT
                !.cur_subid = IF d.pkt.packet_subid > @
                              THEN d.pkt.packet_subid ELSE @,
                !.data_packets = Append(@, d.pkt)]
        ELSE IF res_vec[1] = END
        THEN IF Len(res_vec) < 2 THEN [got EXCEPT !.panicked = TRUE]
             ELSE IF ~ParseI32(res_vec[2]).ok
             THEN [got EXCEPT !.panicked = TRUE]
             ELSE [got EXCEPT !.end = TRUE]
        ELSE got

\* the body of the inner loop dropping a packet whose sub id is lower than
\* the highest seen
ProcessLine_DropsLowerSubId(st, raw, cmd_id) ==
    LET res     == Trim(raw)
        res_vec == Split(res, " ")
        d       == DataParse(res)
        got     == [st EXCEPT !.yielded = Append(@, res),
                              !.yieldedRaw = Append(@, raw)]
    IN  IF d.res = "panic" THEN [got EXCEPT !.panicked = TRUE]
        ELSE IF d.res = "ok"
        THEN IF d.pkt.packet_subid < st.cur_subid THEN got
             ELSE [got EXCEPT !.cur_subid = d.pkt.packet_subid,
                              !.data_packets = Append(@, d.pkt)]
        ELSE IF res_vec[1] = END
        THEN IF Len(res_vec) < 2 THEN [got EXCEPT !.panicked = TRUE]
             ELSE IF ~ParseI32(res_vec[2]).ok
             THEN [got EXCEPT !.panicked = TRUE]
             ELSE IF ParseI32(res_vec[2]).v = cmd_id
             THEN [got EXCEPT !.end = TRUE]
             ELSE got
        ELSE got

\* the body of the inner loop with a TEST or START line counted as data
ProcessLine_CommandLineCounted(st, raw, cmd_id) ==
    LET res     == Trim(raw)
        res_vec == Split(res, " ")
        d       == DataParse(res)
        c       == CommandParse(res)
        got     == [st EXCEPT !.yielded = Append(@, res),
                              !.yieldedRaw = Append(@, raw)]
    IN  IF d.res = "panic" THEN [got EXCEPT !.panicked = TRUE]
        ELSE IF d.res = "ok"
        THEN [got EXCEPT
                !.cur_subid = IF d.pkt.packet_subid > @
                              THEN d.pkt.packet_subid ELSE @,
                !.data_packets = Append(@, d.pkt)]
        ELSE IF res_vec[1] = END
        THEN IF Len(res_vec) < 2 THEN [got EXCEPT !.panicked = TRUE]
             ELSE IF ~ParseI32(res_vec[2]).ok
             THEN [got EXCEPT !.panicked = TRUE]
             ELSE IF ParseI32(res_vec[2]).v = cmd_id
             THEN [got EXCEPT !.end = TRUE]
             ELSE got
        ELSE IF c.res = "ok"
        THEN [got EXCEPT
                !.data_packets =
                    Append(@, DataPacket(c.pkt.packet_id, 0, "VOLTAGE", Num(0)))]
        ELSE got

\* execute_test, the body of the inner while loop for one complete line.
\* st holds the loop's variables; a panic ends the program where it stands.
ProcessLine(st, raw, cmd_id) ==
    LET res     == Trim(raw)
        res_vec == Split(res, " ")
        d       == DataParse(res)
        got     == [st EXCEPT !.yielded = Append(@, res),
                              !.yieldedRaw = Append(@, raw)]
    IN  IF d.res = "panic" THEN [got EXCEPT !.panicked = TRUE]
        ELSE IF d.res = "ok"
        THEN [got EXCEPT
                !.cur_subid = IF d.pkt.packet_subid > @
                              THEN d.pkt.packet_subid ELSE @,
                !.data_packets = Append(@, d.pkt)]
        ELSE IF res_vec[1] = END
        THEN IF Len(res_vec) < 2 THEN [got EXCEPT !.panicked = TRUE]
             ELSE IF ~ParseI32(res_vec[2]).ok
             THEN [got EXCEPT !.panicked = TRUE]
             ELSE IF ParseI32(res_vec[2]).v = cmd_id
             THEN [got EXCEPT !.end = TRUE]
             ELSE got
        ELSE got

\* the inner while loop run down to the last piece: an unterminated
\* remainder is parsed as if it were a line
RECURSIVE ProcessLines_TakesLastPiece(_, _, _)
ProcessLines_TakesLastPiece(st, lines, cmd_id) ==
    IF Len(lines) <= 0 \/ st.panicked THEN st
    ELSE ProcessLines_TakesLastPiece(ProcessLine(st, Head(lines), cmd_id),
                                     Tail(lines), cmd_id)

\* execute_test, the inner while loop: every piece but the last is a line
RECURSIVE ProcessLines(_, _, _)
ProcessLines(st, lines, cmd_id) ==
    IF Len(lines) <= 1 \/ st.panicked THEN st
    ELSE ProcessLines(ProcessLine(st, Head(lines), cmd_id), Tail(lines), cmd_id)

\* one poll that forgets the unterminated remainder
ProcessChunk_DropsRemainder(st, chunk, cmd_id) ==
    LET clone == st.buffer \o chunk
        lines == Split(clone, ";")
        after == ProcessLines(st, lines, cmd_id)
    IN  [after EXCEPT !.buffer = <<>>]

\* one poll that trims the unterminated remainder before keeping it
ProcessChunk_TrimsRemainder(st, chunk, cmd_id) ==
    LET clone == st.buffer \o chunk
        lines == Split(clone, ";")
        after == ProcessLines(st, lines, cmd_id)
    IN  IF after.panicked THEN [after EXCEPT !.buffer = clone]
        ELSE [after EXCEPT !.buffer = Trim(lines[Len(lines)])]

\* one poll that leaves the processed lines in the buffer
ProcessChunk_KeepsClone(st, chunk, cmd_id) ==
    LET clone == st.buffer \o chunk
        lines == Split(clone, ";")
        after == ProcessLines(st, lines, cmd_id)
    IN  [after EXCEPT !.buffer = clone]

\* one poll that takes an empty read for the end of a line
ProcessChunk_EmptyReadEndsLine(st, chunk, cmd_id) ==
    LET clone == st.buffer \o (IF chunk = <<>> THEN <<";">> ELSE chunk)
        lines == Split(clone, ";")
        after == ProcessLines(st, lines, cmd_id)
    IN  IF after.panicked THEN [after EXCEPT !.buffer = clone]
        ELSE [after EXCEPT !.buffer = lines[Len(lines)]]

\* execute_test, the Ok arm of one poll: append the chunk, split at ';',
\* process the complete lines, keep the last piece as the buffer
ProcessChunk(st, chunk, cmd_id) ==
    LET clone == st.buffer \o chunk
        lines == Split(clone, ";")
        after == ProcessLines(st, lines, cmd_id)
    IN  IF after.panicked THEN [after EXCEPT !.buffer = clone]
        ELSE [after EXCEPT !.buffer = lines[Len(lines)]]

\* execute_test, the progress bar's total: the outcomes of
\* ((cmd_args[1] - cmd_args[0]) / cmd_args[2]) as u64 + 1.  The addition to
\* u64::MAX overflows: a panic in a build with overflow checks, 0 without.
ProgressCount(cmd_args) ==
    LET groups == FDivAsU64(FSub(cmd_args[2], cmd_args[1]), cmd_args[3]) IN
    IF groups = U64Max
    THEN {[res |-> "panic", v |-> 0], [res |-> "ok", v |-> 0]}
    ELSE {[res |-> "ok", v |-> groups.v + 1]}

\* the loop's variables before the first poll
LoopStart ==
    [buffer |-> <<>>, end |-> FALSE, cur_subid |-> 0, data_packets |-> <<>>,
     yielded |-> <<>>, yieldedRaw |-> <<>>, panicked |-> FALSE]

\* the loop's variables as a record
LoopState ==
    [buffer |-> buffer, end |-> end, cur_subid |-> cur_subid,
     data_packets |-> packet_set.data_packets,
     yielded |-> yielded, yieldedRaw |-> yieldedRaw, panicked |-> FALSE]

Verify_ResultIgnored ==
    /\ mode = "live"
    /\ pc = "start"
    /\ pc' = "open"
    /\ UNCHANGED <<mode, cmd, stream, pos, rx, tx, response, sent, buffer, end,
                   cur_subid, packet_set, yielded, yieldedRaw, carry, count, abort, fileVars,
                   grammarVars>>

\* execute_test step 0: verify the command packet
Verify ==
    /\ mode = "live"
    /\ pc = "start"
    /\ pc' = IF CommandVerify(cmd) THEN "open" ELSE "error_verify"
    /\ UNCHANGED <<mode, cmd, stream, pos, rx, tx, response, sent, buffer, end,
                   cur_subid, packet_set, yielded, yieldedRaw, carry, count, abort, fileVars,
                   grammarVars>>

\* execute_test step 1: open_serial_comm succeeds or fails
OpenPort ==
    /\ mode = "live"
    /\ pc = "open"
    /\ \E ok \in BOOLEAN : pc' = IF ok THEN "wake" ELSE "error_open"
    /\ UNCHANGED <<mode, cmd, stream, pos, rx, tx, response, sent, buffer, end,
                   cur_subid, packet_set, yielded, yieldedRaw, carry, count, abort, fileVars,
                   grammarVars>>

\* execute_test step 2: the wake-up message "."
SendWake ==
    /\ mode = "live"
    /\ pc = "wake"
    /\ \E ok \in BOOLEAN :
          IF ok THEN /\ sent' = Append(sent, <<".">>)
                     /\ pc' = "test"
                     /\ tx' = "ok"
          ELSE /\ sent' = sent
               /\ pc' = "error_send"
               /\ tx' = "err"
    /\ UNCHANGED <<mode, cmd, stream, pos, rx, response, buffer, end, cur_subid,
                   packet_set, yielded, yieldedRaw, carry, count, abort, fileVars,
                   grammarVars>>

TransmitTest_ErrorIgnored ==
    /\ mode = "live"
    /\ pc = "test"
    /\ \E ok \in BOOLEAN :
          IF ok THEN /\ sent' = Append(sent, TransmitMessage(cmd))
                     /\ tx' = "ok"
          ELSE /\ sent' = sent
               /\ tx' = "err"
    /\ pc' = "confirm"
    /\ UNCHANGED <<mode, cmd, stream, pos, rx, response, buffer, end, cur_subid,
                   packet_set, yielded, yieldedRaw, carry, count, abort, fileVars,
                   grammarVars>>

\* execute_test step 2: transmit the command packet
TransmitTest ==
    /\ mode = "live"
    /\ pc = "test"
    /\ \E ok \in BOOLEAN :
          IF ok THEN /\ sent' = Append(sent, TransmitMessage(cmd))
                     /\ pc' = "confirm"
                     /\ tx' = "ok"
          ELSE /\ sent' = sent
               /\ pc' = "error_send"
               /\ tx' = "err"
    /\ UNCHANGED <<mode, cmd, stream, pos, rx, response, buffer, end, cur_subid,
                   packet_set, yielded, yieldedRaw, carry, count, abort, fileVars,
                   grammarVars>>

\* the operator's answers: the affirmation and two others
Responses == {<<"Y", "\n">>, <<"\n">>, <<"a", "b", "o", "r", "t", "\n">>}

Confirm_StartSentFirst ==
    /\ mode = "live"
    /\ pc = "confirm"
    /\ sent' = Append(sent, TransmitMessage(
                               CommandPacket(cmd.packet_id, "START", <<>>)))
    /\ \E r \in Responses :
          /\ response' = r
          /\ pc' = IF r # <<"Y", "\n">> THEN "aborted" ELSE "start_cmd"
    /\ UNCHANGED <<mode, cmd, stream, pos, rx, tx, buffer, end,
                   cur_subid, packet_set, yielded, yieldedRaw, carry, count, abort, fileVars,
                   grammarVars>>

Confirm_AnyAnswer ==
    /\ mode = "live"
    /\ pc = "confirm"
    /\ \E r \in Responses :
          /\ response' = r
          /\ pc' = "start_cmd"
    /\ UNCHANGED <<mode, cmd, stream, pos, rx, tx, sent, buffer, end,
                   cur_subid, packet_set, yielded, yieldedRaw, carry, count, abort, fileVars,
                   grammarVars>>

\* execute_test step 3: ask the operator
Confirm ==
    /\ mode = "live"
    /\ pc = "confirm"
    /\ \E r \in Responses :
          /\ response' = r
          /\ pc' = IF r # <<"Y", "\n">> THEN "aborted" ELSE "start_cmd"
    /\ UNCHANGED <<mode, cmd, stream, pos, rx, tx, sent, buffer, end,
                   cur_subid, packet_set, yielded, yieldedRaw, carry, count, abort, fileVars,
                   grammarVars>>

\* execute_test step 3: transmit START, then set up the packet set, the
\* buffer and the loop variables
TransmitStart ==
    /\ mode = "live"
    /\ pc = "start_cmd"
    /\ \E ok \in BOOLEAN :
          IF ok
          THEN /\ sent' = Append(sent, TransmitMessage(
                                 CommandPacket(cmd.packet_id, "START", <<>>)))
               /\ tx' = "ok"
               /\ \E c \in ProgressCount(cmd.packet_params) :
                     IF c.res = "panic"
                     THEN pc' = "panicked" /\ count' = count
                     ELSE pc' = "collect" /\ count' = c.v
          ELSE /\ sent' = sent
               /\ pc' = "error_send"
               /\ tx' = "err"
               /\ count' = count
    /\ packet_set' = PacketSet(cmd, <<>>)
    /\ buffer' = <<>>
    /\ end' = FALSE
    /\ cur_subid' = 0
    /\ UNCHANGED <<mode, cmd, stream, pos, rx, response, yielded, yieldedRaw,
                   carry, abort, fileVars, grammarVars>>

\* execute_test step 4, one iteration of the loop whose receive_message
\* returns the next n characters of the stream (n = 0: nothing to read)
PollOk ==
    /\ mode = "live"
    /\ pc = "collect"
    /\ \E n \in 0..(Len(stream) - pos) :
       \E after \in {ProcessChunk(LoopState,
                                  SubSeq(stream, pos + 1, pos + n),
                                  cmd.packet_id)} :
              /\ pos' = pos + n
              /\ buffer' = after.buffer
              /\ end' = after.end
              /\ cur_subid' = after.cur_subid
              /\ packet_set' = [packet_set EXCEPT
                                   !.data_packets = after.data_packets]
              /\ yielded' = after.yielded
              /\ yieldedRaw' = after.yieldedRaw
              /\ carry' = (buffer # <<>> /\ n > 0
                           /\ Len(after.yielded) > Len(yielded))
              /\ pc' = IF after.panicked THEN "panicked"
                       ELSE IF after.end THEN "done"
                       ELSE "collect"
    /\ rx' = "ok"
    /\ UNCHANGED <<mode, cmd, stream, tx, response, sent, count, abort, fileVars, grammarVars>>

\* execute_test step 4, one iteration whose receive_message fails: the
\* error is printed and the loop goes on
PollErr ==
    /\ mode = "live"
    /\ pc = "collect"
    /\ rx' = "err"
    /\ UNCHANGED <<mode, pc, cmd, stream, pos, tx, response, sent, buffer, end,
                   cur_subid, packet_set, yielded, yieldedRaw, carry, count, abort, fileVars,
                   grammarVars>>

\* the world outside asks for the session to stop (the operator, a
\* timeout) while execute_test collects; the loop has no statement that
\* reads the request (communication.rs:102 leaves it to be done)
RaiseAbort ==
    /\ mode = "live"
    /\ pc = "collect"
    /\ ~abort
    /\ abort' = TRUE
    /\ UNCHANGED <<mode, pc, cmd, stream, pos, rx, tx, response, sent, buffer,
                   end, cur_subid, count, packet_set, yielded, yieldedRaw,
                   carry, fileVars, grammarVars>>

\* the packet set execute_test returned is saved by save_packet_set and the
\* log is read back by parse_file
SaveAndReplay ==
    /\ mode = "live"
    /\ pc = "done"
    /\ file = <<>>
    /\ \E saved \in {save_packet_set(packet_set)} :
          IF saved.res = "panic"
          THEN /\ pc' = "panicked"
               /\ UNCHANGED <<file, fpos, packet_sets>>
          ELSE \E read \in {parse_file(saved.lines)} :
                  /\ file' = saved.lines
                  /\ fpos' = IF read.res = "err" THEN 0 ELSE Len(saved.lines)
                  /\ pc' = IF read.res = "panic" THEN "panicked" ELSE pc
                  /\ packet_sets' = IF read.res = "ok" THEN read.sets
                                    ELSE packet_sets
    /\ UNCHANGED <<mode, liveVars, grammarVars>>

----------------------------------------------------------------------------
(* The packet grammar applied to one input *)

NoInput == [kind |-> "none"]

NoOutput == [op |-> "none"]

Returned(ok) == IF ok THEN [res |-> "ok"] ELSE Err

\* DataPacket::parse_packet_string on a text
ApplyDataParse ==
    /\ mode = "grammar"
    /\ pc = "start"
    /\ gin.kind = "text"
    /\ gout' = [op |-> "DataParse", r |-> DataParse(gin.text)]
    /\ pc' = "done"
    /\ UNCHANGED <<mode, gin, liveVars, fileVars>>

\* CommandPacket::parse_packet_string on a text
ApplyCommandParse ==
    /\ mode = "grammar"
    /\ pc = "start"
    /\ gin.kind = "text"
    /\ gout' = [op |-> "CommandParse", r |-> CommandParse(gin.text)]
    /\ pc' = "done"
    /\ UNCHANGED <<mode, gin, liveVars, fileVars>>

\* CommandPacket::verify_packet on a packet
ApplyCommandVerify ==
    /\ mode = "grammar"
    /\ pc = "start"
    /\ gin.kind = "command"
    /\ gout' = [op |-> "CommandVerify", r |-> Returned(CommandVerify(gin.pkt))]
    /\ pc' = "done"
    /\ UNCHANGED <<mode, gin, liveVars, fileVars>>

\* CommandPacket::stringify on a valid packet, then
\* CommandPacket::parse_packet_string on the string
ApplyCommandRoundTrip ==
    /\ mode = "grammar"
    /\ pc = "start"
    /\ gin.kind = "command"
    /\ CommandVerify(gin.pkt)
    /\ \E str \in {CommandStringify(gin.pkt)} :
          gout' = [op |-> "CommandRoundTrip",
                   r |-> IF str.res = "panic" THEN Panic
                         ELSE CommandParse(str.text)]
    /\ pc' = "done"
    /\ UNCHANGED <<mode, gin, liveVars, fileVars>>

\* DataPacket::stringify on a valid packet, then
\* DataPacket::parse_packet_string on the string
ApplyDataRoundTrip ==
    /\ mode = "grammar"
    /\ pc = "start"
    /\ gin.kind = "data"
    /\ DataVerify(gin.pkt)
    /\ \E str \in {DataStringify(gin.pkt)} :
          gout' = [op |-> "DataRoundTrip", r |-> DataParse(str.text)]
    /\ pc' = "done"
    /\ UNCHANGED <<mode, gin, liveVars, fileVars>>

\* the complete lines the live loop takes from one read: the pieces of the
\* split at ';' but the last, each trimmed
CompleteLines(text) ==
    LET lines == Split(text, ";") IN
    [i \in 1..(Len(lines) - 1) |-> Trim(lines[i])]

\* CommandPacket::transmit_packet's message for a valid packet, split and
\* trimmed as the live loop does, then CommandPacket::parse_packet_string on
\* its first line
ApplyWireRoundTrip ==
    /\ mode = "grammar"
    /\ pc = "start"
    /\ gin.kind = "command"
    /\ CommandVerify(gin.pkt)
    /\ \E lines \in {CompleteLines(TransmitMessage(gin.pkt))} :
          gout' = [op |-> "WireRoundTrip",
                   lines |-> lines,
                   r |-> IF lines = <<>> THEN Err ELSE CommandParse(lines[1])]
    /\ pc' = "done"
    /\ UNCHANGED <<mode, gin, liveVars, fileVars>>

\* the separation of a regime's data sequence into the series plotted
ApplySeparateSeries ==
    /\ mode = "grammar"
    /\ pc = "start"
    /\ gin.kind = "packets"
    /\ gout' = [op |-> "SeparateSeries", r |-> SeparateSeries(gin.pkts)]
    /\ pc' = "done"
    /\ UNCHANGED <<mode, gin, liveVars, fileVars>>

\* execute_test's progress total for a TEST command that verify_packet
\* accepts
ApplyProgressCount ==
    /\ mode = "grammar"
    /\ pc = "start"
    /\ gin.kind = "command"
    /\ gin.pkt.packet_command = "TEST"
    /\ CommandVerify(gin.pkt)
    /\ \E c \in ProgressCount(gin.pkt.packet_params) :
          gout' = [op |-> "ProgressCount", r |-> c]
    /\ pc' = "done"
    /\ UNCHANGED <<mode, gin, liveVars, fileVars>>

----------------------------------------------------------------------------
(* Inputs *)

RECURSIVE Join(_)
Join(toks) ==
    IF Len(toks) = 1 THEN toks[1]
    ELSE toks[1] \o <<" ">> \o Join(Tail(toks))

\* the lines the device may send in the live session (without their ';')
LiveLines ==
    { Join(<<DATA, <<"1">>, <<"0">>, <<"0">>, <<"1">>>>),
      <<"\n">> \o Join(<<DATA, <<"1">>, <<"1">>, <<"1">>, <<"2">>>>) \o <<" ">>,
      Join(<<DATA, <<"9">>, <<"0">>, <<"0">>, <<"1">>>>),
      Join(<<END, <<"1">>>>),
      Join(<<END, <<"9">>>>),
      END,
      Join(<<END, <<"x">>>>),
      Join(<<DATA, <<"1">>>>),
      Join(<<TEST, <<"1">>, <<"0">>, <<"9">>, <<"1">>>>),
      <<>> }

\* the lines a log file may hold after its header
FileLines ==
    { Join(<<TEST, <<"1">>, <<"0">>, <<"9">>, <<"1">>>>),
      Join(<<TEST, <<"1">>, <<"0">>, <<"6">>, <<"2">>>>),
      Join(<<TEST, <<"9">>, <<"0">>, <<"9">>, <<"1">>>>),
      Join(<<TEST, <<"1">>, <<"6">>, <<"0">>, <<"1">>>>),
      Join(<<START, <<"1">>>>),
      Join(<<END, <<"1">>>>),
      Join(<<DATA, <<"1">>, <<"0">>, <<"0">>, <<"1", ".", "0">>>>),
      Join(<<DATA, <<"1">>, <<"1">>, <<"1">>, <<"0", ".", "1">>>>),
      Join(<<DATA, <<"9">>, <<"0">>, <<"0">>, <<"1", ".", "0">>>>),
      <<" ">> \o Join(<<DATA, <<"9">>, <<"1">>, <<"2">>, <<"3">>>>) \o <<" ">>,
      Join(<<DATA, <<"1">>, <<"x">>, <<"0">>, <<"1">>>>),
      Join(<<DATA, <<"1">>>>),
      END,
      Join(<<END, <<"x">>>>),
      <<"F", "O", "O">>,
      <<>> }

\* the sequences over S of length at most n
SeqsUpTo(S, n) == UNION {[1..k -> S] : k \in 0..n}

RECURSIVE Terminated(_)
Terminated(ls) ==
    IF ls = <<>> THEN <<>> ELSE Head(ls) \o <<";">> \o Terminated(Tail(ls))

\* "A;B;C"
StreamABC == <<"A", ";", "B", ";", "C">>

\* "TEST 1 0 10 1;"
StreamSplitTest == Join(<<TEST, <<"1">>, <<"0">>, <<"1", "0">>, <<"1">>>>) \o <<";">>

\* "DATA 1 0 0 0.0;DATA 1 0 1 0.0;DATA 1 1 0 1.0;DATA 1 1 1 0.1;END 1;"
StreamScenario ==
    Terminated(<< Join(<<DATA, <<"1">>, <<"0">>, <<"0">>, <<"0", ".", "0">>>>),
                  Join(<<DATA, <<"1">>, <<"0">>, <<"1">>, <<"0", ".", "0">>>>),
                  Join(<<DATA, <<"1">>, <<"1">>, <<"0">>, <<"1", ".", "0">>>>),
                  Join(<<DATA, <<"1">>, <<"1">>, <<"1">>, <<"0", ".", "1">>>>),
                  Join(<<END, <<"1">>>>) >>)

\* "DATA 1 0 0 1;DATA 1 1 1 2;END 1;": the sub ids 0 and 1
StreamTwoGroups ==
    Terminated(<< Join(<<DATA, <<"1">>, <<"0">>, <<"0">>, <<"1">>>>),
                  Join(<<DATA, <<"1">>, <<"1">>, <<"1">>, <<"2">>>>),
                  Join(<<END, <<"1">>>>) >>)

\* a conflicting TEST and a START for the command's id, then data and END
StreamEchoedCommands ==
    Terminated(<<Join(<<TEST, <<"1">>, <<"0">>, <<"6">>, <<"2">>>>),
                 Join(<<START, <<"1">>>>),
                 Join(<<DATA, <<"1">>, <<"0">>, <<"0">>, <<"1">>>>),
                 Join(<<END, <<"1">>>>)>>)

\* "END 1 extra;"
StreamEndExtra ==
    Join(<<END, <<"1">>, <<"e", "x", "t", "r", "a">>>>) \o <<";">>

Streams ==
    {Terminated(ls) : ls \in SeqsUpTo(LiveLines, MaxStreamLines)}
    \cup {StreamABC, StreamSplitTest, StreamScenario, StreamTwoGroups,
          StreamEndExtra, StreamEchoedCommands}

\* first lines other than the bare header: the header as read_line returns
\* it, with its newline; a line that is not the header; a blank line
OtherFirstLines == {Header \o <<"\n">>, <<"F", "O", "O">>, <<>>}

\* a log of two regimes whose lines interleave, with a DATA line ahead of
\* its TEST
FileInterleaved ==
    << Header,
       Join(<<TEST, <<"1">>, <<"0">>, <<"9">>, <<"1">>>>),
       Join(<<DATA, <<"9">>, <<"0">>, <<"0">>, <<"1", ".", "0">>>>),
       Join(<<TEST, <<"9">>, <<"0">>, <<"9">>, <<"1">>>>),
       Join(<<DATA, <<"1">>, <<"1">>, <<"1">>, <<"0", ".", "1">>>>),
       <<" ">> \o Join(<<DATA, <<"9">>, <<"1">>, <<"2">>, <<"3">>>>) \o <<" ">>,
       Join(<<DATA, <<"1">>, <<"0">>, <<"0">>, <<"1", ".", "0">>>>),
       Join(<<END, <<"1">>>>) >>

\* the log of the scenario: TEST 1 0 600 1, START 1, four DATA lines, END 1
FileScenario ==
    << Header,
       Join(<<TEST, <<"1">>, <<"0">>, <<"6", "0", "0">>, <<"1">>>>),
       Join(<<START, <<"1">>>>),
       Join(<<DATA, <<"1">>, <<"0">>, <<"0">>, <<"0", ".", "0">>>>),
       Join(<<DATA, <<"1">>, <<"0">>, <<"1">>, <<"0", ".", "0">>>>),
       Join(<<DATA, <<"1">>, <<"1">>, <<"0">>, <<"1", ".", "0">>>>),
       Join(<<DATA, <<"1">>, <<"1">>, <<"1">>, <<"0", ".", "1">>>>),
       Join(<<END, <<"1">>>>) >>

\* a log whose TEST line has a resolution of zero
FileZeroResolution ==
    << Header,
       Join(<<TEST, <<"1">>, <<"0">>, <<"9">>, <<"0">>>>),
       Join(<<DATA, <<"1">>, <<"0">>, <<"0">>, <<"1", ".", "0">>>>) >>

Files ==
    {<<Header>> \o ls : ls \in SeqsUpTo(FileLines, MaxFileLines)}
    \cup {FileInterleaved, FileScenario, FileZeroResolution}
    \cup {<<h>> \o ls : h \in OtherFirstLines, ls \in SeqsUpTo(FileLines, 1)}
    \cup {<<>>}

\* the command packets handed to execute_test
Commands ==
    { CommandPacket(1, "TEST", <<Num(0), Num(90), Num(10)>>),
      CommandPacket(1, "TEST", <<Num(60), Num(0), Num(10)>>) }

\* TEST 1 0 600 1
ScenarioCommand == CommandPacket(1, "TEST", <<Num(0), Num(6000), Num(10)>>)

\* TEST 1 0 1 1: a sweep of two sub id groups
ShortSweepCommand == CommandPacket(1, "TEST", <<Num(0), Num(10), Num(10)>>)

\* the sessions run with a command of their own
Sessions ==
    { <<ScenarioCommand, StreamScenario>>,
      <<ShortSweepCommand, StreamTwoGroups>> }

IdleCommand == CommandPacket(0, "START", <<>>)

\* the first token of a text handed to a parser
GrammarWords == {DATA, TEST, START, END, <<"F", "O", "O">>}

\* the other tokens
GrammarFields == {<<"1">>, <<"0">>, <<"7">>, <<"x">>, <<"-", "1">>}

\* the texts handed to the parsers: a word and up to MaxTokens - 1 fields
GrammarTexts ==
    { Join(<<w>> \o fs) :
        w \in GrammarWords,
        fs \in UNION { [1..n -> GrammarFields] : n \in 0..(MaxTokens - 1) } }

\* the f32 values of the packets handed to the functions
GrammarF32 == {Num(0), Num(5), Num(90), Num(-10), NaN}

\* the command packets handed to verify_packet and to stringify
GrammarCommands ==
    { CommandPacket(id, c, ps) :
        id \in {-1, 1}, c \in {"TEST", "START", "END"},
        ps \in {<<>>} \cup [1..3 -> GrammarF32] }

\* the data packets handed to stringify
GrammarData ==
    { DataPacket(id, subid, t, d) :
        id \in {-1, 1}, subid \in {-1, 0, 2},
        t \in {"VOLTAGE", "CURRENT", "TEMP", "IRRAD"},
        d \in {Num(0), Num(5), Num(-10), Num(120)} }

\* the data packets of the sequences handed to the visualization: voltages
\* of 1.0, 2.0 and -1.0, the other kinds with the value 1.5, sub ids 0 and 1
ScanPackets ==
    { DataPacket(1, subid, "VOLTAGE", d) :
        subid \in {0, 1}, d \in {Num(10), Num(20), Num(-10)} }
    \cup { DataPacket(1, subid, t, Num(15)) :
              subid \in {0, 1}, t \in {"CURRENT", "TEMP", "IRRAD"} }

\* the data sequences handed to the visualization
ScanData == SeqsUpTo(ScanPackets, MaxPackets)

----------------------------------------------------------------------------
(* Specification *)

Init ==
    /\ mode \in {"live", "file"}
    /\ pc = "start"
    /\ IF mode = "live"
       THEN /\ \/ cmd \in Commands /\ stream \in Streams
               \/ \E s \in Sessions : cmd = s[1] /\ stream = s[2]
            /\ file = <<>>
       ELSE /\ cmd = IdleCommand
            /\ stream = <<>>
            /\ file \in Files
    /\ pos = 0
    /\ rx = "none"
    /\ tx = "none"
    /\ response = <<>>
    /\ sent = <<>>
    /\ buffer = <<>>
    /\ end = FALSE
    /\ cur_subid = 0
    /\ count = 0
    /\ abort = FALSE
    /\ packet_set = PacketSet(cmd, <<>>)
    /\ yielded = <<>>
    /\ yieldedRaw = <<>>
    /\ carry = FALSE
    /\ fpos = 0
    /\ packet_sets = <<>>
    /\ gin = NoInput
    /\ gout = NoOutput

Next ==
    \/ Verify
    \/ OpenPort
    \/ SendWake
    \/ TransmitTest
    \/ Confirm
    \/ TransmitStart
    \/ PollOk
    \/ PollErr
    \/ ReadHeader
    \/ ReadLine
    \/ ReadEof
    \/ SaveAndReplay

Spec == Init /\ [][Next]_vars

\* a step of the collection that reads at least one character of the text
\* not yet read
Deliver ==
    /\ mode = "live"
    /\ pc = "collect"
    /\ pos' \in (pos + 1)..Len(stream)

\* the program with a port that delivers, in the end, what the device sent
SpecDelivering == Init /\ [][Next]_vars /\ WF_pos(Deliver)

\* the program with abort requests arriving from outside
NextAbort ==
    \/ Next
    \/ RaiseAbort

SpecAbort == Init /\ [][NextAbort]_vars

InitGrammar ==
    /\ mode = "grammar"
    /\ pc = "start"
    /\ gin \in [kind : {"text"}, text : GrammarTexts]
              \cup [kind : {"command"}, pkt : GrammarCommands]
              \cup [kind : {"data"}, pkt : GrammarData]
              \cup [kind : {"packets"}, pkts : ScanData]
    /\ gout = NoOutput
    /\ cmd = IdleCommand
    /\ stream = <<>>
    /\ file = <<>>
    /\ pos = 0
    /\ rx = "none"
    /\ tx = "none"
    /\ response = <<>>
    /\ sent = <<>>
    /\ buffer = <<>>
    /\ end = FALSE
    /\ cur_subid = 0
    /\ count = 0
    /\ abort = FALSE
    /\ packet_set = PacketSet(cmd, <<>>)
    /\ yielded = <<>>
    /\ yieldedRaw = <<>>
    /\ carry = FALSE
    /\ fpos = 0
    /\ packet_sets = <<>>

NextGrammar ==
    \/ ApplyDataParse
    \/ ApplyCommandParse
    \/ ApplyCommandVerify
    \/ ApplyCommandRoundTrip
    \/ ApplyDataRoundTrip
    \/ ApplyProgressCount
    \/ ApplyWireRoundTrip
    \/ ApplySeparateSeries

SpecGrammar == InitGrammar /\ [][NextGrammar]_vars

----------------------------------------------------------------------------
(* Reference definitions for the properties *)

\* live: the text read from the port so far
received == SubSeq(stream, 1, pos)

\* the positions of ';' in s
SemiPositions(s) == {i \in 1..Len(s) : s[i] = ";"}

NumSemi(s) == Cardinality(SemiPositions(s))

\* the position of the i-th ';' of s; 0 for i = 0
SemiPos(s, i) ==
    IF i = 0 THEN 0
    ELSE CHOOSE p \in SemiPositions(s) :
             Cardinality({q \in SemiPositions(s) : q <= p}) = i

\* the text of s between its (i-1)-th and its i-th ';'
Segment(s, i) == SubSeq(s, SemiPos(s, i - 1) + 1, SemiPos(s, i) - 1)

IsPrefix(a, b) == Len(a) <= Len(b) /\ a = SubSeq(b, 1, Len(a))

\* a trimmed line that is END with the id given
IsMatchingEnd(line, id) ==
    LET toks == Split(line, " ") IN
    /\ Len(toks) >= 2
    /\ toks[1] = END
    /\ ParseI32(toks[2]).ok
    /\ ParseI32(toks[2]).v = id

\* the lines of ls up to and including the first END with the id given
UpToEnd(ls, id) ==
    LET ends == {i \in 1..Len(ls) : IsMatchingEnd(ls[i], id)} IN
    IF ends = {} THEN ls
    ELSE SubSeq(ls, 1, CHOOSE i \in ends : \A j \in ends : i <= j)

\* the lines, up to the first matching END, that execute_test hands on when
\* its first read returns the whole stream
OneChunk ==
    [s \in Streams, id \in {c.packet_id : c \in Commands} |->
        UpToEnd(ProcessChunk(LoopStart, s, id).yielded, id)]

\* live, between two polls or after the loop
AtPollBoundary == mode = "live" /\ pc \in {"collect", "done"}

----------------------------------------------------------------------------
(* Properties of the stream reassembly in execute_test *)

\* C1: a line is handed on only once its ';' has been read, as the whole
\* trimmed text between its ';' and the one before, whatever reads its
\* characters came in; and when a poll returns, every line whose ';' has been
\* read has been handed on (the i-th line is the i-th segment, once).
C1_Reassembly ==
    mode = "live" =>
        /\ Len(yielded) <= NumSemi(received)
        /\ \A i \in 1..Len(yielded) : yielded[i] = Trim(Segment(received, i))
        /\ AtPollBoundary => Len(yielded) = NumSemi(received)

\* "TEST 1 0 10 1", completed by a read that found its beginning in the buffer
C1_Witness ==
    /\ stream = StreamSplitTest
    /\ carry
    /\ yielded = <<Join(<<TEST, <<"1">>, <<"0">>, <<"1", "0">>, <<"1">>>>)>>
    /\ buffer = <<>>

\* C2 as stated: the single chunk "A;B;C", fed to an empty buffer, yields
\* the lines A, B, C.
C2_Original ==
    [][(mode = "live" /\ pc = "collect" /\ rx = "none"
        /\ stream = StreamABC /\ pos' = Len(StreamABC))
       => yielded' = <<<<"A">>, <<"B">>, <<"C">>>>]_vars

\* C2, amended: the single chunk "A;B;C", fed to an empty buffer, yields the
\* lines A, B; the unterminated C stays in the buffer.
C2_TwoLines ==
    [][(mode = "live" /\ pc = "collect" /\ rx = "none"
        /\ stream = StreamABC /\ pos' = Len(StreamABC))
       => (yielded' = <<<<"A">>, <<"B">>>> /\ buffer' = <<"C">>)]_vars

\* "A;B;C" read in one chunk
C2_Witness ==
    /\ stream = StreamABC
    /\ pos = Len(StreamABC)
    /\ ~carry
    /\ yielded = <<<<"A">>, <<"B">>>>
    /\ buffer = <<"C">>

C4_NoLineTwice ==
    AtPollBoundary =>
        /\ Concat([i \in 1..Len(yieldedRaw) |-> yieldedRaw[i] \o <<";">>])
               \o buffer = received
        /\ SemiPositions(buffer) = {}

\* two lines handed on by different polls, with an unterminated rest kept
C4_Witness ==
    /\ AtPollBoundary
    /\ carry
    /\ Len(yielded) >= 2
    /\ buffer # <<>>

----------------------------------------------------------------------------
(* Reference definitions for the file replay *)

\* every line that occurs in some file
FileTexts ==
    FileLines \cup OtherFirstLines \cup {Header}
        \cup {FileInterleaved[j] : j \in 1..Len(FileInterleaved)}
        \cup {FileScenario[j] : j \in 1..Len(FileScenario)}
        \cup {FileZeroResolution[j] : j \in 1..Len(FileZeroResolution)}

\* what parse_buffer makes of each line, trimmed as parse_file trims it
ParsedText == [l \in FileTexts |-> parse_buffer(Trim(l))]

\* what parse_buffer makes of line j of the file
Parsed(j) == ParsedText[file[j]]

\* the lines of the file folded into the regimes so far (line 1 is the
\* header; a line that panics is read but not folded)
Processed == IF pc = "panicked" THEN 2..(fpos - 1) ELSE 2..fpos

IsDataLine(j) == Parsed(j).res = "data"

IsCommandLine(j, commands) ==
    Parsed(j).res = "command" /\ Parsed(j).pkt.packet_command \in commands

IsTestLine(j, id) ==
    IsCommandLine(j, {"TEST"}) /\ Parsed(j).pkt.packet_id = id

RegimeIds(sets) == {sets[i].command_packet.packet_id : i \in 1..Len(sets)}

\* the first processed line that is a valid TEST for id
FirstTest(id) ==
    CHOOSE j \in Processed :
        IsTestLine(j, id) /\ \A t \in Processed : IsTestLine(t, id) => j <= t

\* the data packets with the id given on lines lo..hi, in line order
RECURSIVE DataOn(_, _, _)
DataOn(lo, hi, id) ==
    IF lo > hi THEN <<>>
    ELSE (IF IsDataLine(lo) /\ Parsed(lo).pkt.packet_id = id
          THEN <<Parsed(lo).pkt>> ELSE <<>>) \o DataOn(lo + 1, hi, id)

LastProcessed == IF pc = "panicked" THEN fpos - 1 ELSE fpos

RECURSIVE TotalData(_)
TotalData(sets) ==
    IF sets = <<>> THEN 0
    ELSE Len(Head(sets).data_packets) + TotalData(Tail(sets))

\* parse_file reads line fpos + 1 in this step
ReadsLine == mode = "file" /\ pc = "lines" /\ fpos' = fpos + 1

----------------------------------------------------------------------------
(* Properties of the file replay aggregation in parse_file *)

\* C5: a DATA packet read while no regime has its id leaves the regimes as
\* they are, and every data packet a regime holds was read from a line after
\* the regime's TEST: a packet that came too early is not attached later.
C5_UnseenIdDropped ==
    /\ [][(ReadsLine /\ IsDataLine(fpos')
           /\ Parsed(fpos').pkt.packet_id \notin RegimeIds(packet_sets))
          => packet_sets' = packet_sets]_vars
    /\ [](mode = "file" =>
            \A i \in 1..Len(packet_sets) :
                LET r == packet_sets[i] IN
                \A k \in 1..Len(r.data_packets) :
                    \E j \in Processed :
                        /\ j > FirstTest(r.command_packet.packet_id)
                        /\ IsDataLine(j)
                        /\ Parsed(j).pkt = r.data_packets[k])

\* "DATA 9 0 0 1.0" read before "TEST 9 0 9 1": one regime, without data
C5_Witness ==
    /\ mode = "file"
    /\ pc = "done"
    /\ file = <<Header,
                Join(<<DATA, <<"9">>, <<"0">>, <<"0">>, <<"1", ".", "0">>>>),
                Join(<<TEST, <<"9">>, <<"0">>, <<"9">>, <<"1">>>>)>>
    /\ Len(packet_sets) = 1
    /\ packet_sets[1].data_packets = <<>>

\* C6: the regimes have pairwise distinct ids, there is one for every id
\* with a valid TEST among the lines read, its command is that of the first
\* such TEST, and reading a TEST whose id has a regime changes nothing.
C6_FirstTestWins ==
    /\ [](mode = "file" =>
            /\ \A i, j \in 1..Len(packet_sets) :
                   packet_sets[i].command_packet.packet_id
                       = packet_sets[j].command_packet.packet_id => i = j
            /\ \A j \in Processed :
                   IsCommandLine(j, {"TEST"})
                       => Parsed(j).pkt.packet_id \in RegimeIds(packet_sets)
            /\ \A i \in 1..Len(packet_sets) :
                   LET c == packet_sets[i].command_packet IN
                   /\ \E j \in Processed : IsTestLine(j, c.packet_id)
                   /\ c = Parsed(FirstTest(c.packet_id)).pkt)
    /\ [][(ReadsLine /\ IsCommandLine(fpos', {"TEST"})
           /\ Parsed(fpos').pkt.packet_id \in RegimeIds(packet_sets))
          => packet_sets' = packet_sets]_vars

\* "TEST 1 0 9 1", a DATA line, then "TEST 1 0 6 2": one regime, with the
\* first parameters and its data
C6_Witness ==
    /\ mode = "file"
    /\ pc = "done"
    /\ file = <<Header,
                Join(<<TEST, <<"1">>, <<"0">>, <<"9">>, <<"1">>>>),
                Join(<<DATA, <<"1">>, <<"0">>, <<"0">>, <<"1", ".", "0">>>>),
                Join(<<TEST, <<"1">>, <<"0">>, <<"6">>, <<"2">>>>)>>
    /\ Len(packet_sets) = 1
    /\ packet_sets[1].command_packet.packet_params = <<Num(0), Num(90), Num(10)>>
    /\ Len(packet_sets[1].data_packets) = 1

\* C7: reading a START or an END packet leaves the regimes as they are.
C7_StartEndNoChange ==
    [][(ReadsLine /\ IsCommandLine(fpos', {"START", "END"}))
       => packet_sets' = packet_sets]_vars

\* an END read for an id that has a regime, and a START read for an id
\* that has none
C7_Witness ==
    /\ mode = "file"
    /\ pc = "lines"
    /\ fpos = 4
    /\ IsCommandLine(2, {"START"})
    /\ IsTestLine(3, 1)
    /\ IsCommandLine(4, {"END"})
    /\ Parsed(4).pkt.packet_id = 1
    /\ Len(packet_sets) = 1

\* C8: the data of each regime is the sequence of the valid DATA packets
\* with its id on the lines read after its TEST, in line order; and the
\* regimes together hold one packet for each DATA line read whose id had a
\* regime.
C8_DataInArrivalOrder ==
    mode = "file" =>
        /\ \A i \in 1..Len(packet_sets) :
               LET r == packet_sets[i]
                   id == r.command_packet.packet_id
               IN  r.data_packets = DataOn(FirstTest(id) + 1, LastProcessed, id)
        /\ TotalData(packet_sets)
               = Cardinality({j \in Processed :
                     /\ IsDataLine(j)
                     /\ \E t \in Processed :
                            t < j /\ IsTestLine(t, Parsed(j).pkt.packet_id)})

\* the interleaved log replayed: each regime holds its own two packets in
\* line order, the early packet of regime 9 is not among them
C8_Witness ==
    /\ mode = "file"
    /\ pc = "done"
    /\ file = FileInterleaved
    /\ Len(packet_sets) = 2
    /\ packet_sets[1].data_packets
           = <<DataPacket(1, 1, "CURRENT", Num(1)),
               DataPacket(1, 0, "VOLTAGE", Num(10))>>
    /\ packet_sets[2].data_packets = <<DataPacket(9, 1, "TEMP", Num(30))>>

----------------------------------------------------------------------------
(* Properties of the live collection loop in execute_test *)

\* C9 as stated: every data packet of the packet set execute_test returns
\* has the id of its command packet.
C9_Original ==
    (mode = "live" /\ pc = "done") =>
        \A i \in 1..Len(packet_set.data_packets) :
            packet_set.data_packets[i].packet_id
                = packet_set.command_packet.packet_id

\* C10 as stated: a line that fails to parse is skipped, and neither the
\* file replay nor the live loop panics.
C10_Original == pc # "panicked"

----------------------------------------------------------------------------
(* Packet grammar: DataPacket::parse_packet_string *)

\* the tokens of the text handed to the parser
ginTokens == Split(gin.text, " ")

\* C11: a text whose first token is DATA parses to a data packet only when
\* it has exactly 5 tokens; with fewer or more the parser returns an error,
\* and it never panics.
C11_Original ==
    (gout.op = "DataParse" /\ ginTokens[1] = DATA)
        => /\ gout.r.res # "panic"
           /\ Len(ginTokens) # 5 => gout.r.res = "err"


\* C12: a text DATA id subid kind value of 5 tokens whose kind is an integer
\* outside 0..3 does not parse: the parser returns an error and accepts it
\* under no kind.
C12_Original ==
    (/\ gout.op = "DataParse"
     /\ ginTokens[1] = DATA
     /\ Len(ginTokens) = 5
     /\ ParseI32(ginTokens[4]).ok
     /\ ParseI32(ginTokens[4]).v \notin 0..3)
        => gout.r.res = "err"


----------------------------------------------------------------------------
(* Validation of TEST commands *)

\* the text is TEST id start end resolution, well formed, with end <= start
InvertedSpan(text) ==
    LET toks == Split(Trim(text), " ") IN
    /\ toks[1] = TEST
    /\ Len(toks) = 5
    /\ ParseI32(toks[2]).ok
    /\ \A k \in 3..5 : ParseF32(toks[k]).ok
    /\ FLe(ParseF32(toks[4]).v, ParseF32(toks[3]).v)

InvertedSpanText == [l \in FileTexts |-> InvertedSpan(l)]

\* the id a TEST text names
TestTextId == [l \in FileTexts |->
                 LET toks == Split(Trim(l), " ") IN
                 IF toks[1] = TEST /\ Len(toks) >= 2 /\ ParseI32(toks[2]).ok
                 THEN ParseI32(toks[2]).v ELSE -1]

\* C13: a TEST command whose voltage_end is less than or equal to its
\* voltage_start produces no regime.  File replay: reading such a line leaves
\* the collection as it is, no regime ever owns such a command, and an id
\* that only such TEST lines name has no regime, so the DATA lines for it are
\* dropped.  Driver: execute_test called with such a command returns the
\* verification error and sends nothing.
C13_InvertedSpanRejected ==
    /\ [][(ReadsLine /\ InvertedSpanText[file[fpos']])
          => packet_sets' = packet_sets]_vars
    /\ [](mode = "file" =>
            /\ \A i \in 1..Len(packet_sets) :
                  LET ps == packet_sets[i].command_packet.packet_params
                  IN  ~FLe(ps[2], ps[1])
            /\ \A j \in Processed :
                  (/\ InvertedSpanText[file[j]]
                   /\ \A t \in Processed :
                         TestTextId[file[t]] = TestTextId[file[j]]
                            => InvertedSpanText[file[t]])
                     => TestTextId[file[j]] \notin RegimeIds(packet_sets))
    /\ []((/\ mode = "live"
           /\ cmd.packet_command = "TEST"
           /\ Len(cmd.packet_params) = 3
           /\ FLe(cmd.packet_params[2], cmd.packet_params[1]))
            => pc \in {"start", "error_verify"} /\ sent = <<>>)

\* a log of a TEST with inverted span and a DATA line for its id was read to
\* its end and holds no regime
C13_Witness ==
    /\ mode = "file"
    /\ pc = "done"
    /\ Len(file) >= 3
    /\ InvertedSpanText[file[2]]
    /\ IsDataLine(3)
    /\ Parsed(3).pkt.packet_id = TestTextId[file[2]]
    /\ packet_sets = <<>>


\* C14: verify_packet accepts a TEST command only if its resolution is
\* positive and at most the span: 0 < voltage_resolution <= voltage_end -
\* voltage_start; a resolution that is zero, negative, or larger than the
\* span is rejected.
C14_Original ==
    (/\ gout.op = "CommandVerify"
     /\ gin.pkt.packet_command = "TEST"
     /\ gout.r.res = "ok")
        => /\ Len(gin.pkt.packet_params) = 3
           /\ FGt(gin.pkt.packet_params[3], Num(0))
           /\ FLe(gin.pkt.packet_params[3],
                  FSub(gin.pkt.packet_params[2], gin.pkt.packet_params[1]))


----------------------------------------------------------------------------
(* Packet grammar: stringify and parse_packet_string *)

\* C15: for every valid packet p (a START, END or TEST command, a data
\* packet of any of the four kinds), parsing the string that stringify makes
\* of p returns a packet equal to p.
C15_Original ==
    gout.op \in {"CommandRoundTrip", "DataRoundTrip"}
        => gout.r.res = "ok" /\ gout.r.pkt = gin.pkt


----------------------------------------------------------------------------
(* The header check of parse_file *)

\* the first line of the file, trimmed, is the header
HeaderMatches == file # <<>> /\ Trim(file[1]) = Header

----------------------------------------------------------------------------
(* Properties of the live session: before the collection *)

\* C17: execute_test called with a command that fails verify_packet returns
\* the error before anything else happens: the port is not opened, nothing
\* is sent, the operator is not asked, and no packet set is built.
C17_InvalidCommandNotStarted ==
    (mode = "live" /\ ~CommandVerify(cmd))
        => /\ pc \in {"start", "error_verify"}
           /\ sent = <<>>
           /\ tx = "none"
           /\ response = <<>>
           /\ rx = "none"

\* execute_test returned the verification error
C17_Witness ==
    /\ mode = "live"
    /\ ~CommandVerify(cmd)
    /\ pc = "error_verify"


\* the operator's affirmation
Affirmation == <<"Y", "\n">>

\* the operator was asked and gave another answer than the affirmation
Declined == response # <<>> /\ response # Affirmation

\* C18 as stated: when the operator answers anything other than the
\* affirmation, the session ends aborted and nothing was sent to the port at
\* any point of the session, neither the TEST command nor START.
C18_Original ==
    (mode = "live" /\ Declined) => pc = "aborted" /\ sent = <<>>

\* C18: when the operator answers anything other than the affirmation, the
\* session ends aborted; the wake-up message and the TEST command were sent
\* before the question, START is never sent and nothing is read.
C18_NoStartAfterDecline ==
    (mode = "live" /\ Declined)
        => /\ pc = "aborted"
           /\ sent = <<<<".">>, TransmitMessage(cmd)>>
           /\ rx = "none"
           /\ pos = 0

\* the operator answered "abort" and the session ended
C18_Witness ==
    /\ mode = "live"
    /\ pc = "aborted"
    /\ response = <<"a", "b", "o", "r", "t", "\n">>
    /\ Len(sent) = 2


\* the message is a START command
IsStartMessage(msg) == Len(msg) >= Len(START) /\ SubSeq(msg, 1, Len(START)) = START

\* the three messages of a session that reached the collection
SessionMessages ==
    << <<".">>, TransmitMessage(cmd),
       TransmitMessage(CommandPacket(cmd.packet_id, "START", <<>>)) >>

\* C19: START is sent only after the TEST command was sent and the operator
\* affirmed, it carries the id of the TEST command, and the collection is
\* entered only after both were sent.
C19_TransmissionOrder ==
    mode = "live" =>
        /\ \A i \in 1..Len(sent) :
              IsStartMessage(sent[i])
                 => /\ sent = SessionMessages
                    /\ i = 3
                    /\ response = Affirmation
        /\ (pc \in {"collect", "done", "panicked"} \/ rx # "none")
              => sent = SessionMessages /\ tx = "ok"

\* the collection was entered
C19_Witness ==
    /\ mode = "live"
    /\ pc = "collect"
    /\ sent = SessionMessages
    /\ response = Affirmation


\* C20: a write failure on a send (the wake-up message, TEST or START) ends
\* the session with the error: nothing is sent afterwards, the collection is
\* not entered, nothing is read and no data is collected.
C20_WriteFailureEndsSession ==
    /\ []((mode = "live" /\ tx = "err")
            => /\ pc = "error_send"
               /\ Len(sent) <= 2
               /\ \A i \in 1..Len(sent) : sent[i] = SessionMessages[i]
               /\ rx = "none"
               /\ pos = 0
               /\ packet_set.data_packets = <<>>)
    /\ [][(mode = "live" /\ tx = "err") => (sent' = sent /\ pc' = pc)]_vars

\* the TEST command could not be written after the wake-up message was
C20_Witness ==
    /\ mode = "live"
    /\ pc = "error_send"
    /\ tx = "err"
    /\ sent = << <<".">> >>


----------------------------------------------------------------------------
(* Properties of the live session: the end of the collection *)

\* the sub ids of the data packets collected so far
SubIdGroups == {packet_set.data_packets[i].packet_subid :
                   i \in 1..Len(packet_set.data_packets)}

\* some line handed on so far is END with the command's id
MatchingEndSeen ==
    \E i \in 1..Len(yielded) : IsMatchingEnd(yielded[i], cmd.packet_id)

\* C21: the collection ends only by a line END with the command's id: the
\* step that ends it hands on such a line, the session is complete only if
\* such a line was handed on, and it goes on collecting as long as none was,
\* whatever other END lines came and however many sub id groups were
\* received compared with the progress bar's total.
C21_OnlyMatchingEndCompletes ==
    /\ [][(mode = "live" /\ pc = "collect" /\ pc' = "done")
          => \E i \in (Len(yielded) + 1)..Len(yielded') :
                IsMatchingEnd(yielded'[i], cmd.packet_id)]_vars
    /\ []((mode = "live" /\ pc = "done") => MatchingEndSeen)
    /\ []((mode = "live" /\ pc = "collect") => ~MatchingEndSeen)
    /\ []((mode = "live" /\ rx # "none" /\ ~MatchingEndSeen)
             => pc \in {"collect", "panicked"})

\* as many sub id groups as the progress bar's total were received and the
\* session is still collecting
C21_Witness ==
    /\ mode = "live"
    /\ pc = "collect"
    /\ count > 0
    /\ Cardinality(SubIdGroups) >= count


\* C22 as stated: a read failure during the collection ends the session with
\* a transport error; the driver does not go on polling.
C22_Original ==
    (mode = "live" /\ rx = "err") => pc # "collect"

\* C23: an abort requested from outside while the driver collects is seen
\* between two polls: the driver's next step ends the session aborted, with
\* no packet set returned; it does not poll again.
C23_Original ==
    [][(mode = "live" /\ pc = "collect" /\ abort) => pc' = "aborted"]_vars


\* C24: a poll whose read returns no byte and no error hands on no line,
\* leaves the buffer and the packet set's data as they are, and leaves the
\* session collecting.
C24_EmptyReadChangesNothing ==
    [][(mode = "live" /\ pc = "collect" /\ rx' = "ok" /\ pos' = pos)
       => /\ pc' = "collect"
          /\ buffer' = buffer
          /\ packet_set' = packet_set
          /\ yielded' = yielded
          /\ end' = end
          /\ cur_subid' = cur_subid]_vars

\* the first read returned nothing although the device has text to send
C24_Witness ==
    /\ mode = "live"
    /\ pc = "collect"
    /\ rx = "ok"
    /\ pos = 0
    /\ stream # <<>>


----------------------------------------------------------------------------
(* The end-to-end scenario *)

\* the data packets of the scenario, in the order of their lines
ScenarioData ==
    << DataPacket(1, 0, "VOLTAGE", Num(0)),
       DataPacket(1, 0, "CURRENT", Num(0)),
       DataPacket(1, 1, "VOLTAGE", Num(10)),
       DataPacket(1, 1, "CURRENT", Num(1)) >>

\* the session of the scenario
InScenario ==
    mode = "live" /\ cmd = ScenarioCommand /\ stream = StreamScenario

\* C25: the command TEST 1 0 600 1 and START 1 followed by the lines
\* DATA 1 0 0 0.0, DATA 1 0 1 0.0, DATA 1 1 0 1.0, DATA 1 1 1 0.1 and END 1
\* give a completed regime of id 1 whose data packets are those four, in
\* arrival order, with the sub ids 0, 0, 1, 1.  Live: the session is complete
\* as soon as the whole text is read, whatever the reads, with that packet
\* set; file replay: the same lines as a log give that one regime.
C25_Scenario ==
    /\ (InScenario /\ pos = Len(stream)) => pc = "done"
    /\ (InScenario /\ pc = "done")
          => /\ packet_set = PacketSet(ScenarioCommand, ScenarioData)
             /\ sent = SessionMessages
    /\ (InScenario /\ rx # "none") => pc \in {"collect", "done"}
    /\ (mode = "file" /\ file = FileScenario /\ pc = "done")
          => packet_sets = <<PacketSet(ScenarioCommand, ScenarioData)>>

\* the session of the scenario is complete
C25_Witness ==
    /\ InScenario
    /\ pc = "done"
    /\ Len(packet_set.data_packets) = 4


----------------------------------------------------------------------------
(* Properties of the live session: the data collected *)

\* the data packets that the lines given parse to, in the order of the lines
RECURSIVE ValidData(_)
ValidData(lines) ==
    IF lines = <<>> THEN <<>>
    ELSE (IF DataParse(Head(lines)).res = "ok"
          THEN <<DataParse(Head(lines)).pkt>> ELSE <<>>)
         \o ValidData(Tail(lines))

\* the greatest of the sub ids collected, 0 when there is none above 0
MaxSubId ==
    IF \A s \in SubIdGroups : s <= 0 THEN 0
    ELSE CHOOSE s \in SubIdGroups : \A t \in SubIdGroups : t <= s

\* C26: every valid DATA line handed on is appended to the data sequence at
\* its arrival position, whatever its sub id, lower than one already seen
\* or not; the sub ids move only the progress indicator, which holds the
\* greatest seen.
C26_OutOfOrderSubIdsKept ==
    mode = "live" =>
        /\ packet_set.data_packets = ValidData(yielded)
        /\ cur_subid = MaxSubId

\* a packet was appended after one of a higher sub id
C26_Witness ==
    /\ mode = "live"
    /\ pc \in {"collect", "done"}
    /\ \E i, j \in 1..Len(packet_set.data_packets) :
          /\ i < j
          /\ packet_set.data_packets[i].packet_subid
                > packet_set.data_packets[j].packet_subid


----------------------------------------------------------------------------
(* The progress total *)

\* floor(a / b) for integers a and b, b not 0
FloorDiv(a, b) == IF b > 0 THEN a \div b ELSE (0 - a) \div (0 - b)

\* C27: for every TEST command that verify_packet accepts, the progress
\* total the driver computes is floor((v_end - v_start) / v_resolution) + 1,
\* a finite positive count.
C27_Original ==
    gout.op = "ProgressCount"
        => LET ps == gin.pkt.packet_params IN
           /\ gout.r.res = "ok"
           /\ gout.r.v > 0
           /\ \A k \in 1..3 : ps[k].k = "num"
           /\ ps[3].v # 0
           /\ gout.r.v = FloorDiv(ps[2].v - ps[1].v, ps[3].v) + 1


----------------------------------------------------------------------------
(* Liveness of the collection *)

\* the text the device sends holds a complete line END with the id given
HasMatchingEnd(s, id) ==
    LET lines == Split(s, ";") IN
    \E i \in 1..(Len(lines) - 1) : IsMatchingEnd(Trim(lines[i]), id)

\* C28: when the driver collects and the port delivers, in the end, a
\* complete line END with the command's id, the driver reaches the end of
\* the collection and returns the packet set, whatever lines, valid or
\* malformed, come before that line.
C28_Original ==
    (mode = "live" /\ pc = "collect" /\ HasMatchingEnd(stream, cmd.packet_id))
        ~> (pc = "done")


\* the line parses, by the command grammar, to an END packet with the id given
IsValidEnd(line, id) ==
    \E r \in {CommandParse(line)} :
        /\ r.res = "ok"
        /\ r.pkt.packet_command = "END"
        /\ r.pkt.packet_id = id

\* C29: a live session is complete only if a line was handed on that is a
\* valid END packet of the command grammar, exactly the two tokens END and
\* the command's id; a line such as "END 1 extra" does not complete it.
C29_Original ==
    (mode = "live" /\ pc = "done")
        => \E i \in 1..Len(yielded) : IsValidEnd(yielded[i], cmd.packet_id)


\* the returned packet set was saved and its log read back
Replayed == mode = "live" /\ pc = "done" /\ file # <<>>

\* C30: the log save_packet_set writes for a packet set execute_test
\* returned, read by parse_file, gives exactly one regime, with the packet
\* set's command and its data packets in the same order.
C30_Original ==
    Replayed => packet_sets = <<packet_set>>


----------------------------------------------------------------------------
(* After the matching END *)

\* C31: the data sequence of the regime returned holds no DATA line that
\* follows the matching END in the stream, in the same read as the END or in
\* a later one: it is the data of the lines up to that END.
C31_Original ==
    (mode = "live" /\ pc = "done")
        => packet_set.data_packets
               = ValidData(UpToEnd(yielded, cmd.packet_id))


----------------------------------------------------------------------------
(* Invariants of the collection of regimes *)

\* C32: whatever lines were processed, no two regimes of the collection have
\* the same id.
C32_RegimeIdsDistinct ==
    \A i, j \in 1..Len(packet_sets) :
        i < j => packet_sets[i].command_packet.packet_id
                     # packet_sets[j].command_packet.packet_id

\* "TEST 1 0 9 1", "TEST 9 0 9 1", then "TEST 1 0 6 2" were read: two regimes
C32_Witness ==
    /\ mode = "file"
    /\ pc = "done"
    /\ file = <<Header,
                Join(<<TEST, <<"1">>, <<"0">>, <<"9">>, <<"1">>>>),
                Join(<<TEST, <<"9">>, <<"0">>, <<"9">>, <<"1">>>>),
                Join(<<TEST, <<"1">>, <<"0">>, <<"6">>, <<"2">>>>)>>
    /\ Len(packet_sets) = 2


\* a TEST command with a nonnegative id and three parameters with
\* voltage_end > voltage_start and 0 < voltage_resolution <= their difference
IsWellFormedTest(c) ==
    /\ c.packet_command = "TEST"
    /\ c.packet_id >= 0
    /\ Len(c.packet_params) = 3
    /\ FGt(c.packet_params[2], c.packet_params[1])
    /\ FGt(c.packet_params[3], Num(0))
    /\ FLe(c.packet_params[3], FSub(c.packet_params[2], c.packet_params[1]))

\* C33: every regime of the collection owns a TEST command with a
\* nonnegative id and exactly three parameters, the end voltage above the
\* start voltage and the resolution above zero and at most their difference.
C33_Original ==
    \A i \in 1..Len(packet_sets) :
        IsWellFormedTest(packet_sets[i].command_packet)


----------------------------------------------------------------------------
(* The reassembly buffer *)

\* C34: when an iteration of the live loop ends, the buffer holds no ';' and
\* is exactly the text received after the last ';' received, untrimmed,
\* nothing of it lost and nothing twice.
C34_BufferIsRemainder ==
    AtPollBoundary =>
        /\ \A i \in 1..Len(buffer) : buffer[i] # ";"
        /\ buffer = SubSeq(received,
                           SemiPos(received, NumSemi(received)) + 1, pos)

\* after a line was handed on, a read ended within the next line, past the
\* white space it begins with, which the buffer keeps
C34_Witness ==
    /\ mode = "live"
    /\ pc = "collect"
    /\ yielded # <<>>
    /\ Len(buffer) >= 2
    /\ Head(buffer) = "\n"


----------------------------------------------------------------------------
(* The command of the regime returned *)

\* the line's first word is TEST or START
IsTestOrStartLine(line) ==
    \E vec \in {Split(line, " ")} : vec[1] = TEST \/ vec[1] = START

\* C35: the command packet of the regime execute_test builds and returns is
\* the caller's TEST command, id and parameters, whatever lines arrive; and
\* a read whose lines are all TEST or START lines, of the command's id or
\* not, leaves the regime as it was, with no data packet added.
C35_CommandKept ==
    /\ [](mode = "live" => packet_set.command_packet = cmd)
    /\ [][(mode = "live" /\ pc = "collect"
           /\ \A i \in (Len(yielded) + 1)..Len(yielded') :
                  IsTestOrStartLine(yielded'[i]))
          => packet_set' = packet_set]_vars

\* the session ended after "TEST 1 0 6 2" and "START 1" were received: the
\* regime has the caller's command and the one data packet of the DATA line
C35_Witness ==
    /\ mode = "live"
    /\ pc = "done"
    /\ stream = StreamEchoedCommands
    /\ Len(yielded) = 4
    /\ packet_set = PacketSet(cmd, <<DataPacket(1, 0, "VOLTAGE", Num(10))>>)


----------------------------------------------------------------------------
(* The wire form of a command *)

\* C36: for every command packet verify_packet accepts, the message
\* transmit_packet makes, split at ';' and trimmed as the live loop does, is
\* one line, and CommandPacket::parse_packet_string parses it to a packet
\* equal to the one sent.
C36_WireRoundTrip ==
    gout.op = "WireRoundTrip"
        => /\ Len(gout.lines) = 1
           /\ gout.r.res = "ok"
           /\ gout.r.pkt = gin.pkt

\* TEST 1 0 0.5 0.5 went through the wire form and came back
C36_Witness ==
    /\ gout.op = "WireRoundTrip"
    /\ gin.pkt = CommandPacket(1, "TEST", <<Num(0), Num(5), Num(5)>>)
    /\ gout.lines = <<Join(<<TEST, <<"1">>, <<"0">>, <<"0", ".", "5">>,
                             <<"0", ".", "5">>>>)>>
    /\ gout.r = Ok(gin.pkt)


----------------------------------------------------------------------------
(* The pairing of measurements with voltages in the visualization *)

\* the points of the four series
PlottedPoints(r) ==
    {r.series_current[i] : i \in 1..Len(r.series_current)}
        \cup {r.series_power[i] : i \in 1..Len(r.series_power)}
        \cup {r.series_temp[i] : i \in 1..Len(r.series_temp)}
        \cup {r.series_irrad[i] : i \in 1..Len(r.series_irrad)}

\* position k holds the most recent VOLTAGE packet before position i, within
\* the consecutive run of packets with the sub id of the packet at i
IsPairedVoltage(d, k, i) ==
    /\ k < i
    /\ d[k].packet_type = "VOLTAGE"
    /\ \A j \in k..i : d[j].packet_subid = d[i].packet_subid
    /\ \A j \in (k + 1)..(i - 1) : d[j].packet_type # "VOLTAGE"

\* C37: in the scan of a regime's data sequence a point is plotted only for
\* a CURRENT, TEMP or IRRAD packet that has a VOLTAGE packet before it within
\* the same consecutive run of its sub id, and the point's voltage is that
\* of the most recent such VOLTAGE packet; no voltage is carried over a
\* change of sub id.
C37_PairedWithinRun ==
    gout.op = "SeparateSeries" =>
        \A p \in PlottedPoints(gout.r) :
            /\ gin.pkts[p.idx].packet_type \in {"CURRENT", "TEMP", "IRRAD"}
            /\ \E k \in 1..Len(gin.pkts) :
                  /\ IsPairedVoltage(gin.pkts, k, p.idx)
                  /\ p.x = ScaledAsI32(gin.pkts[k].packet_data, 1000, 1)

\* voltages 1.0 and 2.0, then a current and, after a change of sub id,
\* another current: one point, at 2000 mV
C37_Witness ==
    /\ gout.op = "SeparateSeries"
    /\ Len(gin.pkts) = 3
    /\ gin.pkts[1] = DataPacket(1, 0, "VOLTAGE", Num(20))
    /\ gin.pkts[2] = DataPacket(1, 0, "CURRENT", Num(15))
    /\ gin.pkts[3] = DataPacket(1, 1, "CURRENT", Num(15))
    /\ gout.r.series_current = <<Point(2000, 1500, 2)>>
    /\ gout.r.series_power = <<Point(2000, 3000, 2)>>

============================================================================
